---- MODULE Spec2Model ----
(***************************************************************************)
(* Bookmark-RESTful: the users/bookmarks data-access layer                 *)
(* (repository/repository.go), the HTTP handlers and the API-key middleware *)
(* (handler), and the start-up sequence (main).                             *)
(*                                                                         *)
(* The persistent store is the pair of tables users and bookmarks.  Every  *)
(* SQL statement the code issues is one atomic step; a function that issues *)
(* several statements is several steps, so that other requests interleave  *)
(* between them exactly where the code lets them.                          *)
(***************************************************************************)
EXTENDS Integers, Sequences, FiniteSets, TLC

\* ---------------------------------------------------------------- bounds
MaxUserID == 2          \* AUTO_INCREMENT of users.id is capped here
MaxBookmarkID == 2      \* AUTO_INCREMENT of bookmarks.id is capped here
MaxKeys == 3            \* number of keys generateAPIKey may hand out
MaxLegacy == 2          \* accounts that predate the api_key column
MaxClock == 1           \* the clock, counted in ticks, stops here

Procs == {"p1", "p2"}
Names == {"Ada"}
\* the name on the rows that predate this process
LegacyName == "Grace"
Emails == {"e1", "e2"}
\* titles are sequences of characters; one is an initial segment of the other
Titles == {<<"g", "o">>, <<"g", "o", "l">>}
URLs == {"u1"}

\* a nullable column: <<>> is SQL NULL, <<v>> is the value v
NULL == <<>>
\* the nil interface value / nil pointer
Nil == "nil"

\* net/http status codes used by the handlers
StatusOK == 200
StatusCreated == 201
StatusBadRequest == 400
StatusUnauthorized == 401
StatusConflict == 409
StatusInternalServerError == 500

VARIABLES
    users,          \* table users: set of rows [id, name, email, api_key]
    nextUserID,     \* AUTO_INCREMENT counter of users
    bookmarks,      \* table bookmarks: set of rows [id, user_id, title, url, created_at]
    nextBookmarkID, \* AUTO_INCREMENT counter of bookmarks
    nextKey,        \* crypto/rand: the next never-before-seen key
    now,            \* the clock, in ticks, when it was last read
    sweep,          \* UpdateExistingUsersWithAPIKey as run by main at start
    pc,             \* per request: the statement it is about to execute
    loc,            \* per request: its local variables
    resp            \* the result returned / response written by the last step, if any

vars == <<users, nextUserID, bookmarks, nextBookmarkID, nextKey, now, sweep, pc, loc, resp>>

\* ---------------------------------------------------------------- helpers
Min(a, b) == IF a < b THEN a ELSE b

UserIDs(us) == {u.id : u \in us}

UsersWithEmail(us, email) == {u \in us : u.email = email}

BookmarksOf(bs, uid) == {b \in bs : b.user_id = uid}

\* all orderings of a finite set as sequences without repetition
Orderings(S) ==
    {s \in [1..Cardinality(S) -> S] : \A i, j \in 1..Cardinality(S) : i # j => s[i] # s[j]}

\* the initial segments of a sequence
Prefixes(s) == {SubSeq(s, 1, k) : k \in 0..Len(s)}

\* for rows.Next() { rows.Scan(...); append } over a SELECT without ORDER BY:
\* the store chooses the order of the rows, and the loop ends when Next
\* returns false, which it does after the last row and also when reading a
\* row fails; rows.Err() is never consulted, so the slice built so far is
\* what the caller gets in both cases.  A slice nothing was appended to is
\* nil: <<>>.
RowsScanned(S) == UNION {Prefixes(o) : o \in Orderings(S)}

NoResp == [op |-> "none", via |-> "none", arg |-> 0,
           status |-> 0, err |-> Nil, val |-> Nil]

Idle == [op |-> "none"]

\* ---------------------------------------------------------------- Init
\* The database outlives the process: at start it may hold accounts created
\* by the version of CreateUser that wrote no api_key (their key is NULL).
LegacyUsers(n, em) ==
    {[id |-> i, name |-> LegacyName, email |-> em[i], api_key |-> NULL] : i \in 1..n}

Init ==
    /\ \E n \in 0..Min(MaxLegacy, MaxUserID) :
         \E em \in [1..n -> Emails] :
            /\ \A i, j \in 1..n : i # j => em[i] # em[j]
            /\ users = LegacyUsers(n, em)
            /\ nextUserID = n + 1
    /\ bookmarks = {}
    /\ nextBookmarkID = 1
    /\ nextKey = 1
    /\ now = 0
    /\ sweep = [pc |-> "query", ids |-> <<>>, i |-> 1, err |-> Nil, errUser |-> 0]
    /\ pc = [p \in Procs |-> "idle"]
    /\ loc = [p \in Procs |-> Idle]
    /\ resp = NoResp

\* ---------------------------------------------------------------- store
\* the UPDATE without its WHERE clause
UpdateAPIKeyAllRows(us, uid, key) == {[u EXCEPT !.api_key = <<key>>] : u \in us}

\* UPDATE users SET api_key = ? WHERE id = ?
UpdateAPIKey(us, uid, key) ==
    {IF u.id = uid THEN [u EXCEPT !.api_key = <<key>>] ELSE u : u \in us}

\* SELECT id FROM users WHERE api_key IS NULL
UsersWithoutKey(us) == {u.id : u \in {x \in us : x.api_key = NULL}}

\* the uniqueness check run against the wrong column
EmailExistsWrongColumn(us, email) == {u \in us : u.name = email} # {}

\* SELECT EXISTS(SELECT 1 FROM users WHERE email = ?)
EmailExists(us, email) == UsersWithEmail(us, email) # {}

\* ---------------------------------------------------------------- backfill
Serving == sweep.pc = "serving"

\* UpdateExistingUsersWithAPIKey: the SELECT and the loop that scans its rows
\* into userIDs.
SweepQuery ==
    /\ sweep.pc = "query"
    /\ \E ok \in BOOLEAN :
        IF ~ok
        THEN sweep' = [sweep EXCEPT !.pc = "done", !.err = "query"]
        ELSE \E ids \in RowsScanned(UsersWithoutKey(users)) :
               sweep' = [sweep EXCEPT !.ids = ids, !.i = 1,
                                      !.pc = IF Len(ids) = 0 THEN "done" ELSE "loop"]
    /\ resp' = NoResp
    /\ UNCHANGED <<users, nextUserID, bookmarks, nextBookmarkID, nextKey, now, pc, loc>>

\* the loop that logs a failure and goes on to the next account
SweepStepResultContinue(sw, outcome) ==
    [sw EXCEPT !.i = sw.i + 1,
               !.pc = IF sw.i + 1 > Len(sw.ids) THEN "done" ELSE "loop",
               !.err = IF outcome = "ok" THEN sw.err ELSE outcome,
               !.errUser = IF outcome = "ok" THEN sw.errUser ELSE sw.ids[sw.i]]

\* One iteration of the loop over userIDs: generateAPIKey, then the UPDATE.
SweepStepResult(sw, outcome) ==
    IF outcome = "ok"
    THEN [sw EXCEPT !.i = sw.i + 1,
                    !.pc = IF sw.i + 1 > Len(sw.ids) THEN "done" ELSE "loop"]
    ELSE [sw EXCEPT !.pc = "done", !.err = outcome, !.errUser = sw.ids[sw.i]]

SweepStep ==
    /\ sweep.pc = "loop"
    /\ \E outcome \in {"ok", "generate", "update"} :
        /\ sweep' = SweepStepResult(sweep, outcome)
        /\ IF outcome = "ok"
           THEN /\ nextKey <= MaxKeys
                /\ users' = UpdateAPIKey(users, sweep.ids[sweep.i], nextKey)
                /\ nextKey' = nextKey + 1
           ELSE UNCHANGED <<users, nextKey>>
    /\ resp' = NoResp
    /\ UNCHANGED <<nextUserID, bookmarks, nextBookmarkID, now, pc, loc>>

\* main: the result of the sweep is logged, the router is built and
\* http.ListenAndServe starts accepting requests, whatever the sweep returned
NoSweep == [pc |-> "serving", ids |-> <<>>, i |-> 1, err |-> Nil, errUser |-> 0]

ListenAndServe ==
    /\ sweep.pc = "done"
    /\ sweep' = NoSweep
    /\ resp' = NoResp
    /\ UNCHANGED <<users, nextUserID, bookmarks, nextBookmarkID, nextKey, now, pc, loc>>

\* ---------------------------------------------------------------- requests
Resp(p, op, via, arg, status, err, val) ==
    [op |-> op, via |-> via, arg |-> arg, status |-> status, err |-> err, val |-> val]

\* the function returns: the request is over and its result is observable
\* (until the next step of the system)
Return(p, r) ==
    /\ pc' = [pc EXCEPT ![p] = "idle"]
    /\ loc' = [loc EXCEPT ![p] = Idle]
    /\ resp' = r

Goto(p, label, l) ==
    /\ pc' = [pc EXCEPT ![p] = label]
    /\ loc' = [loc EXCEPT ![p] = l]
    /\ resp' = NoResp

CanStart(p) == Serving /\ pc[p] = "idle"

\* ---------------------------------------------------------------- CreateUser
\* Handler.CreateUser: err == ErrEmailTaken -> 409, other err -> 500, else 201
CreateUserStatus(err) ==
    IF err = Nil THEN StatusCreated
    ELSE IF err = "ErrEmailTaken" THEN StatusConflict
    ELSE StatusInternalServerError

\* POST /users: decode the body, then the first statement of CreateUser
\* (the SELECT EXISTS) and the test of its result.
HandlerCreateUser(p) ==
    /\ CanStart(p)
    /\ \E decoded \in BOOLEAN, name \in Names, email \in Emails, ok \in BOOLEAN :
        IF ~decoded
        THEN Return(p, Resp(p, "CreateUser", "http", "none", StatusBadRequest, "decode", Nil))
        ELSE IF ~ok
        THEN Return(p, Resp(p, "CreateUser", "http", email, CreateUserStatus("store"), "store", Nil))
        ELSE IF EmailExists(users, email)
        THEN Return(p, Resp(p, "CreateUser", "http", email,
                            CreateUserStatus("ErrEmailTaken"), "ErrEmailTaken", Nil))
        ELSE Goto(p, "cu_insert", [op |-> "CreateUser", name |-> name, email |-> email])
    /\ UNCHANGED <<users, nextUserID, bookmarks, nextBookmarkID, nextKey, now, sweep>>

\* CreateUser, after the check: generateAPIKey, the INSERT, LastInsertId.
CreateUserInsert(p) ==
    /\ pc[p] = "cu_insert"
    /\ \E outcome \in {"ok", "generate", "store"} :
        IF outcome = "ok"
        THEN /\ nextUserID <= MaxUserID
             /\ nextKey <= MaxKeys
             /\ LET u == [id |-> nextUserID, name |-> loc[p].name,
                          email |-> loc[p].email, api_key |-> <<nextKey>>]
                IN /\ users' = users \cup {u}
                   /\ Return(p, Resp(p, "CreateUser", "http", loc[p].email,
                                     CreateUserStatus(Nil), Nil, u))
             /\ nextUserID' = nextUserID + 1
             /\ nextKey' = nextKey + 1
        ELSE /\ Return(p, Resp(p, "CreateUser", "http", loc[p].email,
                               CreateUserStatus(outcome), outcome, Nil))
             /\ UNCHANGED <<users, nextUserID, nextKey>>
    /\ UNCHANGED <<bookmarks, nextBookmarkID, now, sweep>>

\* ---------------------------------------------------------------- API keys
\* keys a caller may present: every key that can be issued and one that never is
KeyInputs == 1..(MaxKeys + 1)

\* the lookup that accepts any account that has a key
RowsWithAnyKey(us, key) == {u \in us : u.api_key # NULL}

\* SELECT id, name, email, api_key FROM users WHERE api_key = ?
\* (a NULL api_key equals nothing); <<>> stands for sql.ErrNoRows
RowsWithKey(us, key) == {u \in us : u.api_key = <<key>>}

GetUserByAPIKey(us, key) ==
    IF RowsWithKey(us, key) = {}
    THEN [err |-> "ErrInvalidAPIKey", user |-> <<>>]
    ELSE [err |-> Nil, user |-> <<CHOOSE u \in RowsWithKey(us, key) : TRUE>>]

\* RegenerateAPIKey(db, userID): generateAPIKey, then the UPDATE.
\* An UPDATE that matches no row is not an error.
RegenerateAPIKey(p, via, uid) ==
    /\ \E outcome \in {"ok", "generate", "update"} :
        IF outcome = "ok"
        THEN /\ nextKey <= MaxKeys
             /\ users' = UpdateAPIKey(users, uid, nextKey)
             /\ nextKey' = nextKey + 1
             /\ Return(p, Resp(p, "RegenerateAPIKey", via, uid,
                               IF via = "http" THEN StatusOK ELSE 0, Nil, nextKey))
        ELSE /\ UNCHANGED <<users, nextKey>>
             /\ Return(p, Resp(p, "RegenerateAPIKey", via, uid,
                               IF via = "http" THEN StatusInternalServerError ELSE 0,
                               outcome, 0))
    /\ UNCHANGED <<nextUserID, bookmarks, nextBookmarkID, now, sweep>>

CallRegenerateAPIKey(p) ==
    /\ CanStart(p)
    /\ \E uid \in 1..MaxUserID : RegenerateAPIKey(p, "direct", uid)

CallGetUserByAPIKey(p) ==
    /\ CanStart(p)
    /\ \E key \in KeyInputs, ok \in BOOLEAN :
        IF ok
        THEN LET r == GetUserByAPIKey(users, key)
             IN Return(p, Resp(p, "GetUserByAPIKey", "direct", key, 0, r.err, r.user))
        ELSE Return(p, Resp(p, "GetUserByAPIKey", "direct", key, 0, "store", <<>>))
    /\ UNCHANGED <<users, nextUserID, bookmarks, nextBookmarkID, nextKey, now, sweep>>

\* ---------------------------------------------------------------- locks
\* deleteUserAndBookmarks runs its two DELETEs inside a transaction: until
\* Commit or Rollback the rows it deleted stay in the committed tables, locked.
InTx(q) == pc[q] \in {"tx_bookmarks", "tx_user", "tx_commit"}

LockedBookmarks(p) == UNION {loc[q].delB : q \in {r \in Procs \ {p} : InTx(r)}}

LockedUsers(p) == {loc[q].uid : q \in {r \in Procs \ {p} : InTx(r) /\ loc[r].delU}}

\* a bookmarks table without the foreign key
ParentExistsUnchecked(us, uid) == TRUE

\* bookmarks.user_id references users.id: a bookmark is accepted only for an
\* existing account, and an account is deleted only when no bookmark is left
ParentExists(us, uid) == uid \in UserIDs(us)

NoChildren(bs, uid) == BookmarksOf(bs, uid) = {}

\* ---------------------------------------------------------------- bookmarks
\* FetchBookmarks: the slices it can return with a nil error
FetchBookmarks(bs, uid) == RowsScanned(BookmarksOf(bs, uid))

\* the clock never runs backwards
ClockReadings(t) == t..Min(t + 1, MaxClock)

\* created_at is not in the INSERT's column list: the store fills it in from
\* its clock, and keeps whole seconds ("created_at":"2025-07-07T20:42:45Z")
TicksPerSecond == 2

StoreTimestamp(t) == (t \div TicksPerSecond) * TicksPerSecond

\* CreateBookmark: the INSERT and LastInsertId.  The INSERT waits while the
\* parent row is locked.

CreateBookmarkInsert(p, via, uid, title, url) ==
    /\ uid \notin LockedUsers(p)
    /\ \E ok \in BOOLEAN :
        IF ok /\ ParentExists(users, uid)
        THEN /\ nextBookmarkID <= MaxBookmarkID
             /\ \E t \in ClockReadings(now) :
                 /\ now' = t
                 /\ bookmarks' = bookmarks \cup
                        {[id |-> nextBookmarkID, user_id |-> uid, title |-> title,
                          url |-> url, created_at |-> StoreTimestamp(t)]}
             /\ nextBookmarkID' = nextBookmarkID + 1
             /\ Goto(p, "cb_select", [op |-> "CreateBookmark", via |-> via, t0 |-> now,
                                      bm |-> [id |-> nextBookmarkID, user_id |-> uid,
                                              title |-> title, url |-> url]])
        ELSE /\ UNCHANGED <<bookmarks, nextBookmarkID, now>>
             /\ Return(p, Resp(p, "CreateBookmark", via, uid,
                               IF via = "http" THEN StatusInternalServerError ELSE 0,
                               IF ok THEN "fk" ELSE "store", Nil))
    /\ UNCHANGED <<users, nextUserID, nextKey, sweep>>

\* CreateBookmark: SELECT created_at FROM bookmarks WHERE id = ?
CreateBookmarkSelect(p) ==
    /\ pc[p] = "cb_select"
    /\ \E ok \in BOOLEAN :
        LET rows == {b \in bookmarks : b.id = loc[p].bm.id}
            via == loc[p].via
        IN IF ok /\ rows # {}
           THEN Return(p, Resp(p, "CreateBookmark", via, loc[p].bm.user_id,
                               IF via = "http" THEN StatusCreated ELSE 0, Nil,
                               [id |-> loc[p].bm.id, user_id |-> loc[p].bm.user_id,
                                title |-> loc[p].bm.title, url |-> loc[p].bm.url,
                                created_at |-> (CHOOSE b \in rows : TRUE).created_at]))
           ELSE Return(p, Resp(p, "CreateBookmark", via, loc[p].bm.user_id,
                               IF via = "http" THEN StatusInternalServerError ELSE 0,
                               IF ok THEN "ErrNoRows" ELSE "store", Nil))
    /\ UNCHANGED <<users, nextUserID, bookmarks, nextBookmarkID, nextKey, now, sweep>>

\* AddBookmark -> CreateBookmark
CallCreateBookmark(p) ==
    /\ CanStart(p)
    /\ \E uid \in 1..MaxUserID, title \in Titles, url \in URLs :
        CreateBookmarkInsert(p, "direct", uid, title, url)

\* json.NewEncoder(w).Encode(bms): a nil slice is written as null, any other
\* slice as an array of its elements
JSONEncode(list) ==
    IF list = <<>> THEN [json |-> "null", items |-> <<>>]
    ELSE [json |-> "array", items |-> list]

\* FetchBookmarks as called by a handler or by the ListBookmarks helper
FetchBookmarksCall(p, via, uid) ==
    /\ \E ok \in BOOLEAN :
        IF ok
        THEN \E list \in FetchBookmarks(bookmarks, uid) :
                Return(p, Resp(p, "FetchBookmarks", via, uid,
                               IF via = "direct" THEN 0 ELSE StatusOK, Nil,
                               IF via = "direct" THEN list ELSE JSONEncode(list)))
        ELSE Return(p, Resp(p, "FetchBookmarks", via, uid,
                            IF via = "direct" THEN 0 ELSE StatusInternalServerError,
                            "store", <<>>))
    /\ UNCHANGED <<users, nextUserID, bookmarks, nextBookmarkID, nextKey, now, sweep>>

CallFetchBookmarks(p) ==
    /\ CanStart(p)
    /\ \E uid \in 1..MaxUserID : FetchBookmarksCall(p, "direct", uid)

\* title = ? as the title column compares: character by character
TitleMatches(stored, given) == stored = given

\* the DELETE without its user_id condition
RowsByTitleAnyOwner(bs, uid, title) == {b \in bs : TitleMatches(b.title, title)}

\* DELETE FROM bookmarks WHERE user_id = ? AND title = ?
RowsByTitle(bs, uid, title) == {b \in bs : b.user_id = uid /\ TitleMatches(b.title, title)}

\* DeleteBookmark -> deleteBookmarkByTitle; the DELETE waits for locked rows
CallDeleteBookmarkByTitle(p) ==
    /\ CanStart(p)
    /\ \E uid \in 1..MaxUserID, title \in Titles, ok \in BOOLEAN :
        LET rows == RowsByTitle(bookmarks, uid, title)
        IN /\ {b.id : b \in rows} \cap LockedBookmarks(p) = {}
           /\ IF ok
              THEN /\ bookmarks' = bookmarks \ rows
                   /\ Return(p, Resp(p, "deleteBookmarkByTitle", "direct",
                                     [uid |-> uid, title |-> title], 0, Nil,
                                     Cardinality(rows)))
              ELSE /\ UNCHANGED bookmarks
                   /\ Return(p, Resp(p, "deleteBookmarkByTitle", "direct",
                                     [uid |-> uid, title |-> title], 0, "store", 0))
    /\ UNCHANGED <<users, nextUserID, nextBookmarkID, nextKey, now, sweep>>

\* ---------------------------------------------------------------- deleteUserAndBookmarks
\* the DELETE without its WHERE clause
TxSelectAllBookmarks(bs, uid) == {b.id : b \in bs}

\* DELETE FROM bookmarks WHERE user_id = ? : the ids of the rows it removes
TxSelectBookmarks(bs, uid) == {b.id : b \in BookmarksOf(bs, uid)}

\* what the transaction has done to each table, visible once it commits
TxApplyBookmarks(bs, l) == {b \in bs : b.id \notin l.delB}

TxApplyUsers(us, l) == IF l.delU THEN {u \in us : u.id # l.uid} ELSE us

\* the statements run on db instead of tx: nothing is ever rolled back
AfterTxNoRollback(tbl, applied, committed) == applied

\* tx.Commit() makes the transaction's work the committed table; the deferred
\* tx.Rollback() discards it on every other path
AfterTx(tbl, applied, committed) == IF committed THEN applied ELSE tbl

TxResp(p, uid, err) == Resp(p, "deleteUserAndBookmarks", "direct", uid, 0, err, Nil)

\* DeleteAccount -> deleteUserAndBookmarks: db.Begin()
TxBegin(p) ==
    /\ CanStart(p)
    /\ \E uid \in 1..MaxUserID, ok \in BOOLEAN :
        IF ok
        THEN Goto(p, "tx_bookmarks", [op |-> "deleteUserAndBookmarks", uid |-> uid,
                                      delB |-> {}, delU |-> FALSE])
        ELSE Return(p, TxResp(p, uid, "begin"))
    /\ UNCHANGED <<users, nextUserID, bookmarks, nextBookmarkID, nextKey, now, sweep>>

\* tx.Exec("DELETE FROM bookmarks WHERE user_id = ?"); it waits for rows
\* another transaction has locked
TxDeleteBookmarks(p) ==
    /\ pc[p] = "tx_bookmarks"
    /\ TxSelectBookmarks(bookmarks, loc[p].uid) \cap LockedBookmarks(p) = {}
    /\ \E ok \in BOOLEAN :
        /\ IF ok
           THEN Goto(p, "tx_user",
                     [loc[p] EXCEPT !.delB = TxSelectBookmarks(bookmarks, loc[p].uid)])
           ELSE Return(p, TxResp(p, loc[p].uid, "bookmarks"))
        /\ users' = AfterTx(users, TxApplyUsers(users, loc[p]), FALSE)
        /\ bookmarks' = AfterTx(bookmarks, TxApplyBookmarks(bookmarks, loc[p]), FALSE)
    /\ UNCHANGED <<nextUserID, nextBookmarkID, nextKey, now, sweep>>

\* tx.Exec("DELETE FROM users WHERE id = ?"); the store refuses to delete a
\* row that a bookmark still references
TxDeleteUser(p) ==
    /\ pc[p] = "tx_user"
    /\ loc[p].uid \notin LockedUsers(p)
    /\ \E ok \in BOOLEAN :
        LET remaining == TxApplyBookmarks(bookmarks, loc[p])
        IN /\ IF ok /\ NoChildren(remaining, loc[p].uid)
              THEN Goto(p, "tx_commit",
                        [loc[p] EXCEPT !.delU = ParentExists(users, loc[p].uid)])
              ELSE Return(p, TxResp(p, loc[p].uid, IF ok THEN "fk" ELSE "user"))
           /\ users' = AfterTx(users, TxApplyUsers(users, loc[p]), FALSE)
           /\ bookmarks' = AfterTx(bookmarks, TxApplyBookmarks(bookmarks, loc[p]), FALSE)
    /\ UNCHANGED <<nextUserID, nextBookmarkID, nextKey, now, sweep>>

\* tx.Commit()
TxCommit(p) ==
    /\ pc[p] = "tx_commit"
    /\ \E ok \in BOOLEAN :
        /\ users' = AfterTx(users, TxApplyUsers(users, loc[p]), ok)
        /\ bookmarks' = AfterTx(bookmarks, TxApplyBookmarks(bookmarks, loc[p]), ok)
        /\ Return(p, TxResp(p, loc[p].uid, IF ok THEN Nil ELSE "commit"))
    /\ UNCHANGED <<nextUserID, nextBookmarkID, nextKey, now, sweep>>

\* ---------------------------------------------------------------- request context
\* context.WithValue / Context.Value: a key matches when both its dynamic
\* type and its value are equal; <<>> is the nil interface
WithValue(ctx, key, val) == Append(ctx, [key |-> key, val |-> val])

RECURSIVE Value(_, _)
Value(ctx, key) ==
    IF Len(ctx) = 0 THEN <<>>
    ELSE IF ctx[Len(ctx)].key = key THEN <<ctx[Len(ctx)].val>>
    ELSE Value(SubSeq(ctx, 1, Len(ctx) - 1), key)

\* const userContextKey contextKey = "user"
userContextKey == [type |-> "contextKey", value |-> "user"]

\* r.Context().Value("user")
HandlerContextKey == [type |-> "string", value |-> "user"]

\* ---------------------------------------------------------------- middleware
ProtectedRoutes == {"POST /bookmarks", "GET /bookmarks", "POST /auth/regenerate-key"}

\* the Authorization header after strings.Split(authHeader, " "):
\* n = len(parts) (0 for an empty header), scheme = parts[0], key = parts[1]
BearerHeaders == {[n |-> 2, scheme |-> "Bearer", key |-> k] : k \in KeyInputs}

Headers ==
    {[n |-> 0, scheme |-> "", key |-> 0],
     [n |-> 1, scheme |-> "Bearer", key |-> 0],
     [n |-> 2, scheme |-> "Basic", key |-> 1],
     [n |-> 3, scheme |-> "Bearer", key |-> 1]}
    \cup BearerHeaders

MiddlewareResp(status, err) == Resp("", "APIKeyMiddleware", "http", 0, status, err, Nil)

APIKeyMiddleware(p, routes, headers) ==
    /\ CanStart(p)
    /\ \E route \in routes, h \in headers :
        IF h.n = 0
        THEN Return(p, MiddlewareResp(StatusUnauthorized, "missing"))
        ELSE IF h.n # 2 \/ h.scheme # "Bearer"
        THEN Return(p, MiddlewareResp(StatusUnauthorized, "format"))
        ELSE \/ Return(p, MiddlewareResp(StatusInternalServerError, "store"))
             \/ IF GetUserByAPIKey(users, h.key).err # Nil
                THEN Return(p, MiddlewareResp(StatusUnauthorized, "ErrInvalidAPIKey"))
                ELSE Goto(p, "handler",
                          [op |-> "handler", route |-> route,
                           ctx |-> WithValue(<<>>, userContextKey,
                                             GetUserByAPIKey(users, h.key).user[1])])
    /\ UNCHANGED <<users, nextUserID, bookmarks, nextBookmarkID, nextKey, now, sweep>>

\* Handler.RegenerateAPIKey, Handler.CreateBookmark and
\* Handler.ListBookmarksForCurrentUser all begin with
\*     user := r.Context().Value("user").(*repository.User)
\* which panics when the value is nil; net/http recovers the panic and
\* drops the connection without writing a response.
ProtectedHandler(p) ==
    /\ pc[p] = "handler"
    /\ LET v == Value(loc[p].ctx, HandlerContextKey)
       IN IF v = <<>>
          THEN /\ Return(p, Resp(p, loc[p].route, "http", 0, 0, "panic", Nil))
               /\ UNCHANGED <<users, nextUserID, bookmarks, nextBookmarkID, nextKey, now, sweep>>
          ELSE IF loc[p].route = "POST /auth/regenerate-key"
          THEN RegenerateAPIKey(p, "http", v[1].id)
          ELSE IF loc[p].route = "GET /bookmarks"
          THEN FetchBookmarksCall(p, "http", v[1].id)
          ELSE \E decoded \in BOOLEAN, title \in Titles, url \in URLs :
                IF decoded
                THEN CreateBookmarkInsert(p, "http", v[1].id, title, url)
                ELSE /\ Return(p, Resp(p, "CreateBookmark", "http", v[1].id,
                                       StatusBadRequest, "decode", Nil))
                     /\ UNCHANGED <<users, nextUserID, bookmarks, nextBookmarkID,
                                    nextKey, now, sweep>>

\* ---------------------------------------------------------------- public list
Digits == {"0", "1", "2", "3", "4", "5", "6", "7", "8", "9"}

DigitVal(c) ==
    CASE c = "0" -> 0 [] c = "1" -> 1 [] c = "2" -> 2 [] c = "3" -> 3 [] c = "4" -> 4
      [] c = "5" -> 5 [] c = "6" -> 6 [] c = "7" -> 7 [] c = "8" -> 8 [] c = "9" -> 9

RECURSIVE DecimalValue(_)
DecimalValue(s) ==
    IF Len(s) = 0 THEN 0
    ELSE 10 * DecimalValue(SubSeq(s, 1, Len(s) - 1)) + DigitVal(s[Len(s)])

\* strconv.Atoi: an optional sign, then one or more decimal digits
Atoi(s) ==
    LET signed == Len(s) > 0 /\ s[1] \in {"+", "-"}
        body == IF signed THEN SubSeq(s, 2, Len(s)) ELSE s
    IN IF Len(body) = 0 \/ \E i \in 1..Len(body) : body[i] \notin Digits
       THEN [err |-> "syntax", n |-> 0]
       ELSE [err |-> Nil,
             n |-> IF signed /\ s[1] = "-" THEN 0 - DecimalValue(body) ELSE DecimalValue(body)]

\* the {userID} segment of GET /users/{userID}/bookmarks
PathSegments ==
    {<<"1">>, <<"2">>, <<"3">>, <<"0", "2">>, <<"-", "1">>, <<"x">>, <<"1", "x">>, <<"+">>}

HandlerListBookmarks(p) ==
    /\ CanStart(p)
    /\ \E seg \in PathSegments :
        IF Atoi(seg).err # Nil
        THEN /\ Return(p, Resp(p, "FetchBookmarks", "http", 0, StatusBadRequest, "atoi", <<>>))
             /\ UNCHANGED <<users, nextUserID, bookmarks, nextBookmarkID, nextKey, now, sweep>>
        ELSE FetchBookmarksCall(p, "http", Atoi(seg).n)

\* ---------------------------------------------------------------- properties
\* C1: no two persisted accounts share an email, whatever the interleaving
\* of CreateUser calls.
C1_NoTwoAccountsShareEmail ==
    \A u, v \in users : u.email = v.email => u.id = v.id

\* C2: a CreateUser call for an email that is already stored never gets past
\* its check: it fails with ErrEmailTaken and leaves the store as it was, so
\* the account that the first call inserted stays the only one; a call that
\* succeeds adds exactly the account it returns.
C2_SecondCreateFailsEmailTaken ==
    [][ /\ \A p \in Procs :
             (pc[p] = "idle" /\ pc'[p] = "cu_insert")
                => ~\E u \in users : u.email = loc'[p].email
        /\ (resp'.op = "CreateUser" /\ pc' = pc /\ resp'.err \notin {"decode", "store"})
                => /\ resp'.err = "ErrEmailTaken"
                   /\ \E u \in users : u.email = resp'.arg
        /\ (resp'.op = "CreateUser" /\ resp'.err = "ErrEmailTaken")
                => /\ resp'.status = StatusConflict
                   /\ users' = users
                   /\ bookmarks' = bookmarks
        /\ (resp'.op = "CreateUser" /\ resp'.err = Nil)
                => /\ resp'.val \notin users
                   /\ users' = users \cup {resp'.val}
                   /\ resp'.val.email = resp'.arg
                   /\ resp'.val.id \notin UserIDs(users)
      ]_vars

\* a second call has just failed with ErrEmailTaken on the one account that an
\* earlier CreateUser call inserted
C2_Witness ==
    /\ resp.op = "CreateUser"
    /\ resp.err = "ErrEmailTaken"
    /\ Cardinality({u \in users : u.email = resp.arg}) = 1
    /\ \E u \in users : u.email = resp.arg /\ u.name \in Names

\* C3: deleteUserAndBookmarks changes the committed tables only in the step of
\* a successful Commit, and then removes the account and its bookmarks
\* together; every other step, and every call that reports a failure, leaves
\* the committed tables as they were.
C3_DeleteIsAllOrNothing ==
    [][ /\ \A p \in Procs :
            (InTx(p) /\ pc'[p] # pc[p])
            => \/ users' = users /\ bookmarks' = bookmarks
               \/ /\ pc[p] = "tx_commit"
                  /\ resp'.op = "deleteUserAndBookmarks"
                  /\ resp'.err = Nil
                  /\ loc[p].uid \notin UserIDs(users')
                  /\ \A b \in bookmarks' : b.user_id # loc[p].uid
        /\ (resp'.op = "deleteUserAndBookmarks" /\ resp'.err # Nil)
            => users' = users /\ bookmarks' = bookmarks
      ]_vars

\* the delete of the account row or the commit has failed after the bookmarks
\* were deleted inside the transaction: account and bookmarks are still there
C3_Witness ==
    /\ resp.op = "deleteUserAndBookmarks"
    /\ resp.err \in {"user", "commit"}
    /\ resp.arg \in UserIDs(users)
    /\ BookmarksOf(bookmarks, resp.arg) # {}

\* C4: a successful deleteUserAndBookmarks removes the account row and every
\* bookmark of the account, FetchBookmarks for the id then returns no row, and
\* all other accounts and bookmarks are as before.
C4_DeleteRemovesAccountAndBookmarks ==
    [][ (resp'.op = "deleteUserAndBookmarks" /\ resp'.err = Nil)
        => /\ users' = {u \in users : u.id # resp'.arg}
           /\ bookmarks' = {b \in bookmarks : b.user_id # resp'.arg}
           /\ FetchBookmarks(bookmarks', resp'.arg) = {<<>>}
      ]_vars

\* an account that existed has just been deleted with the bookmark it had,
\* while a bookmark of another account is still stored
C4_Witness ==
    /\ resp.op = "deleteUserAndBookmarks"
    /\ resp.err = Nil
    /\ resp.arg < nextUserID
    /\ resp.arg \notin UserIDs(users)
    /\ Cardinality(bookmarks) = 1
    /\ nextBookmarkID = 3
    /\ \A b \in bookmarks : b.user_id \in UserIDs(users)

\* C5: the account that a bookmark names as its owner exists.
C5_BookmarkOwnerExists ==
    \A b \in bookmarks : \E u \in users : u.id = b.user_id

\* a bookmark for an account that has been deleted is refused by the store
\* while bookmarks of another account are stored
C5_Witness ==
    /\ resp.op = "CreateBookmark"
    /\ resp.err = "fk"
    /\ resp.arg < nextUserID
    /\ resp.arg \notin UserIDs(users)
    /\ bookmarks # {}

\* C6: when RegenerateAPIKey succeeds for an existing account, the key it
\* returns resolves to that account, the key the account had before resolves
\* to nothing, and no other key resolves to the account.
C6_RotateInvalidatesOldKey ==
    [][ (resp'.op = "RegenerateAPIKey" /\ resp'.err = Nil
            /\ \E u \in users : u.id = resp'.arg)
        => LET old == (CHOOSE u \in users : u.id = resp'.arg).api_key
               new == resp'.val
           IN /\ GetUserByAPIKey(users', new).err = Nil
              /\ GetUserByAPIKey(users', new).user[1].id = resp'.arg
              /\ old # NULL => GetUserByAPIKey(users', old[1]).err = "ErrInvalidAPIKey"
              /\ \A k \in KeyInputs \ {new} :
                    GetUserByAPIKey(users', k).err = Nil
                        => GetUserByAPIKey(users', k).user[1].id # resp'.arg
      ]_vars

\* the key of an account that CreateUser made (so it had a key) has just been
\* replaced, next to another account with a key of its own
C6_Witness ==
    /\ resp.op = "RegenerateAPIKey"
    /\ resp.err = Nil
    /\ \E u \in users : u.id = resp.arg /\ u.name \in Names /\ u.api_key = <<resp.val>>
    /\ \E u \in users : u.id # resp.arg /\ u.api_key # NULL

\* C7: a lookup that the store answers returns an account exactly when the
\* key is the stored key of some account, and then that account; otherwise it
\* fails with ErrInvalidAPIKey; it changes nothing in the store.
C7_ExactMatchLookup ==
    [][ (resp'.op = "GetUserByAPIKey" /\ resp'.err # "store")
        => /\ (resp'.err = Nil) <=> (\E u \in users : u.api_key = <<resp'.arg>>)
           /\ resp'.err = Nil
                => /\ Len(resp'.val) = 1
                   /\ resp'.val[1] \in users
                   /\ resp'.val[1].api_key = <<resp'.arg>>
           /\ resp'.err # Nil => resp'.err = "ErrInvalidAPIKey" /\ resp'.val = <<>>
           /\ users' = users
           /\ bookmarks' = bookmarks
      ]_vars

\* a key that was issued and has since been replaced is looked up and refused
\* while some account holds another key
C7_Witness ==
    /\ resp.op = "GetUserByAPIKey"
    /\ resp.err = "ErrInvalidAPIKey"
    /\ resp.arg < nextKey
    /\ \E u \in users : u.api_key # NULL

\* C8: a protected request with a valid key reaches its handler, which takes
\* the account out of the request context without failing.
C8_ContextExtractionNeverFails ==
    resp.err # "panic"

\* C9: every response of the request boundary carries the status stated for
\* its outcome.
C9_StatusMapping ==
    resp.via = "http"
    => /\ resp.status \in {StatusOK, StatusCreated, StatusBadRequest,
                           StatusUnauthorized, StatusConflict, StatusInternalServerError}
       /\ resp.err = "ErrEmailTaken" <=> resp.status = StatusConflict
       /\ resp.err \in {"missing", "format", "ErrInvalidAPIKey"}
            <=> resp.status = StatusUnauthorized
       /\ resp.err \in {"decode", "atoi"} <=> resp.status = StatusBadRequest
       /\ (resp.err = Nil /\ resp.op \in {"CreateUser", "CreateBookmark"})
            <=> resp.status = StatusCreated
       /\ (resp.err = Nil /\ resp.op \notin {"CreateUser", "CreateBookmark"})
            <=> resp.status = StatusOK
       /\ resp.err \in {"store", "generate", "update", "fk", "ErrNoRows"}
            <=> resp.status = StatusInternalServerError

\* C10: when the key generation or the UPDATE fails for an account, the sweep
\* ends at once with an error that names this account; the accounts it handled
\* before keep the keys it gave them and the others still have none.
C10_SweepStopsAtFailure ==
    [][ (sweep.pc = "loop" /\ sweep'.err # Nil)
        => /\ sweep'.pc = "done"
           /\ sweep'.err \in {"generate", "update"}
           /\ sweep'.errUser = sweep.ids[sweep.i]
           /\ users' = users
           /\ \A j \in 1..Len(sweep.ids) :
                \A u \in users' :
                    u.id = sweep.ids[j] => ((u.api_key # NULL) <=> (j < sweep.i))
      ]_vars

\* the sweep has failed on its second account after giving the first a key
C10_Witness ==
    /\ sweep.pc = "done"
    /\ sweep.err \in {"generate", "update"}
    /\ Len(sweep.ids) >= 2
    /\ sweep.i = 2
    /\ sweep.errUser = sweep.ids[2]
    /\ \E u \in users : u.id = sweep.ids[1] /\ u.api_key # NULL

\* C11: a CreateBookmark that succeeds returns the bookmark it stored, with
\* the identifier the store gave it, the title, url and owner of the call and
\* a creation timestamp not earlier than the time of the call, and a
\* ListBookmarks for the owner that follows contains this bookmark.
C11_CreateThenListContains ==
    [][ \A p \in Procs :
          (pc[p] = "cb_select" /\ pc'[p] = "idle" /\ resp'.err = Nil)
          => /\ resp'.val.id = loc[p].bm.id
             /\ resp'.val.title = loc[p].bm.title
             /\ resp'.val.url = loc[p].bm.url
             /\ resp'.val.user_id = loc[p].bm.user_id
             /\ resp'.val.created_at >= loc[p].t0
             /\ \A list \in FetchBookmarks(bookmarks', resp'.val.user_id) :
                    \E i \in 1..Len(list) : list[i] = resp'.val
      ]_vars

\* AUTO_INCREMENT ids grow with every INSERT: the rows in insertion order
InsertionOrder(S) ==
    CHOOSE o \in Orderings(S) : \A i, j \in 1..Len(o) : i < j => o[i].id < o[j].id

\* C12: a ListBookmarks that succeeds returns exactly the bookmarks the
\* account owns at that moment, each once and none of another account, in the
\* order in which they were inserted.
C12_ListExactlyInInsertionOrder ==
    [][ (resp'.op = "FetchBookmarks" /\ resp'.via = "direct" /\ resp'.err = Nil)
        => resp'.val = InsertionOrder(BookmarksOf(bookmarks, resp'.arg))
      ]_vars

\* C13: for an account id without bookmarks, whether or not an account has
\* the id, ListBookmarks succeeds with an empty sequence and the list handlers
\* answer 200 with an empty JSON sequence.
C13_NoBookmarksEmptySequence ==
    [][ (resp'.op = "FetchBookmarks" /\ resp'.err = Nil
            /\ BookmarksOf(bookmarks, resp'.arg) = {})
        => IF resp'.via = "direct"
           THEN resp'.val = <<>>
           ELSE /\ resp'.status = StatusOK
                /\ resp'.val = [json |-> "array", items |-> <<>>]
      ]_vars

\* C14: a deleteBookmarkByTitle that succeeds removes exactly the bookmarks of
\* the account whose title is the given title, returns how many they were
\* (zero, without an error, when there is none), and leaves every other
\* bookmark and every account as it was.
C14_DeleteByTitleExact ==
    [][ (resp'.op = "deleteBookmarkByTitle" /\ resp'.err = Nil)
        => LET gone == {b \in bookmarks : /\ b.user_id = resp'.arg.uid
                                          /\ b.title = resp'.arg.title}
           IN /\ bookmarks' = bookmarks \ gone
              /\ resp'.val = Cardinality(gone)
              /\ users' = users
      ]_vars

\* one bookmark has just been deleted by its title while the account keeps a
\* bookmark whose title begins with the deleted one
C14_Witness ==
    /\ resp.op = "deleteBookmarkByTitle"
    /\ resp.err = Nil
    /\ resp.val = 1
    /\ \E b \in bookmarks :
        /\ b.user_id = resp.arg.uid
        /\ Len(b.title) > Len(resp.arg.title)
        /\ SubSeq(b.title, 1, Len(resp.arg.title)) = resp.arg.title

\* C15: the sweep runs once, before any request is served; it gives keys only
\* to accounts that have none and leaves every other account as it is; when it
\* returns no error every account that existed at its start has a key; and
\* the server starts whatever the sweep returned.
C15_BackfillOnceBeforeServing ==
    [][ /\ pc' # pc => sweep.pc = "serving"
        /\ sweep.pc = "serving" => sweep'.pc = "serving"
        /\ sweep.pc \in {"query", "loop"}
            => /\ UserIDs(users') = UserIDs(users)
               /\ \A u \in users : u.api_key # NULL => u \in users'
        /\ (sweep.pc \in {"query", "loop"} /\ sweep'.pc = "done" /\ sweep'.err = Nil)
            => \A u \in users' : u.api_key # NULL
        /\ sweep.pc = "done" => sweep'.pc = "serving"
      ]_vars

\* ---------------------------------------------------------------- specifications
\* The process from its start: the backfill sweep, then the server with the
\* account, key and HTTP operations.
NextAPI ==
    \/ SweepQuery
    \/ SweepStep
    \/ ListenAndServe
    \/ \E p \in Procs :
        \/ HandlerCreateUser(p)
        \/ CreateUserInsert(p)
        \/ CallRegenerateAPIKey(p)
        \/ CallGetUserByAPIKey(p)
        \/ APIKeyMiddleware(p, ProtectedRoutes, Headers)
        \/ ProtectedHandler(p)
        \/ HandlerListBookmarks(p)

SpecAPI == Init /\ [][NextAPI]_vars

\* The running server over a store that already holds accounts: the bookmark
\* operations and account deletion, next to authenticated requests.
StoreUsers(n) ==
    LET em == CHOOSE f \in [1..n -> Emails] : \A i, j \in 1..n : i # j => f[i] # f[j]
    IN {[id |-> i, name |-> LegacyName, email |-> em[i], api_key |-> <<i>>] : i \in 1..n}

InitStore ==
    /\ \E n \in 1..Min(MaxUserID, Cardinality(Emails)) :
        /\ users = StoreUsers(n)
        /\ nextUserID = n + 1
        /\ nextKey = n + 1
    /\ bookmarks = {}
    /\ nextBookmarkID = 1
    /\ now = MaxClock      \* the clock has run to its last reading
    /\ sweep = NoSweep
    /\ pc = [p \in Procs |-> "idle"]
    /\ loc = [p \in Procs |-> Idle]
    /\ resp = NoResp

NextStore ==
    \/ \E p \in Procs :
        \/ CallCreateBookmark(p)
        \/ CreateBookmarkSelect(p)
        \/ CallFetchBookmarks(p)
        \/ CallDeleteBookmarkByTitle(p)
        \/ TxBegin(p)
        \/ TxDeleteBookmarks(p)
        \/ TxDeleteUser(p)
        \/ TxCommit(p)
        \/ APIKeyMiddleware(p, {"POST /bookmarks"}, BearerHeaders)
        \/ ProtectedHandler(p)

\* The start of the process over any database: accounts with and without a
\* key, the sweep, and the key operations once the server runs.
BootUsers(n, em, keyed) ==
    {[id |-> i, name |-> LegacyName, email |-> em[i],
      api_key |-> IF i \in keyed THEN <<Cardinality({j \in keyed : j <= i})>> ELSE NULL]
        : i \in 1..n}

InitBoot ==
    /\ \E n \in 0..Min(MaxLegacy, MaxUserID) :
         \E em \in [1..n -> Emails], keyed \in SUBSET (1..n) :
            /\ \A i, j \in 1..n : i # j => em[i] # em[j]
            /\ users = BootUsers(n, em, keyed)
            /\ nextUserID = n + 1
            /\ nextKey = Cardinality(keyed) + 1
    /\ bookmarks = {}
    /\ nextBookmarkID = 1
    /\ now = 0
    /\ sweep = [pc |-> "query", ids |-> <<>>, i |-> 1, err |-> Nil, errUser |-> 0]
    /\ pc = [p \in Procs |-> "idle"]
    /\ loc = [p \in Procs |-> Idle]
    /\ resp = NoResp

NextBoot ==
    \/ SweepQuery
    \/ SweepStep
    \/ ListenAndServe
    \/ \E p \in Procs :
        \/ CallRegenerateAPIKey(p)
        \/ CallGetUserByAPIKey(p)

SpecBoot == InitBoot /\ [][NextBoot]_vars

SpecStore == InitStore /\ [][NextStore]_vars

\* The bookmark operations alone, with the clock running from its start.
InitBookmarks ==
    /\ \E n \in 1..Min(MaxUserID, Cardinality(Emails)) :
        /\ users = StoreUsers(n)
        /\ nextUserID = n + 1
        /\ nextKey = n + 1
    /\ bookmarks = {}
    /\ nextBookmarkID = 1
    /\ now = 0
    /\ sweep = NoSweep
    /\ pc = [p \in Procs |-> "idle"]
    /\ loc = [p \in Procs |-> Idle]
    /\ resp = NoResp

NextBookmarks ==
    \/ \E p \in Procs :
        \/ CallCreateBookmark(p)
        \/ CreateBookmarkSelect(p)
        \/ CallFetchBookmarks(p)
        \/ CallDeleteBookmarkByTitle(p)
        \/ HandlerListBookmarks(p)

SpecBookmarks == InitBookmarks /\ [][NextBookmarks]_vars

====
